---- MODULE Spec2Model ----
(***************************************************************************)
(* Mancala (Kalah) engine of mancala_engine.py: the board state, the rules *)
(* engine apply_move, the game driver play_game and the minimax and        *)
(* alpha-beta search policies.                                             *)
(*                                                                         *)
(* pits is a function on 0..13 as in the source: 0-5 player 0's row, 6     *)
(* player 0's store, 7-12 player 1's row, 13 player 1's store.             *)
(***************************************************************************)
EXTENDS Integers, Sequences, FiniteSets, TLC

\* ------------------------------------------------------------------ bounds
\* games start from standard_start(n) for n in 1..MaxStones, besides the
\* default start
MaxStones == 1
\* play_game's max_moves is drawn from 0..MaxMoves
MaxMoves == 7
\* search policies are built with depth in 1..MaxDepth
MaxDepth == 3
\* the ceiling max_moves of the random games from the default start
ShortMoves == 3
\* the ceiling max_moves of the games in which a random policy may meet a
\* search policy, of the search games from the default start, and of the
\* scheduled random games
SearchMoves == 3
\* direct calls of apply_move: a pit holds up to MaxPit stones
MaxPit == 14
\* direct calls of apply_move made in a row on one board
MaxCalls == 1

\* ------------------------------------------------------- program constants
NumSlots == 14
\* standard_start's default stones_per_pit, the start of play_game
DefaultStones == 4
\* stands for math.inf: larger than any store difference
Inf == 1000000
\* play_game's default max_moves
DefaultMaxMoves == 500

\* ------------------------------------------------------------ board state
Slots == 0 .. (NumSlots - 1)

\* MancalaState.standard_start
standard_start(n) ==
    [pits |-> [i \in Slots |-> IF i = 6 \/ i = 13 THEN 0 ELSE n],
     player_to_move |-> 0,
     last_move_was_capture |-> FALSE,
     game_over |-> FALSE]

\* MancalaState.side_range, as the ordered range it is
side_range(player) ==
    IF player = 0 THEN <<0, 1, 2, 3, 4, 5>> ELSE <<7, 8, 9, 10, 11, 12>>

\* membership in a range or list: Python's "in"
InSeq(x, seq) == \E k \in 1 .. Len(seq) : seq[k] = x

\* MancalaState.mancala_index
mancala_index(player) == IF player = 0 THEN 6 ELSE 13

\* MancalaState.opponent_mancala_index
opponent_mancala_index(player) == IF player = 0 THEN 13 ELSE 6

\* legal_moves without the "> 0" filter
legal_moves_any(state, player) == side_range(player)

\* MancalaState.legal_moves with an explicit player
legal_moves(state, player) ==
    SelectSeq(side_range(player), LAMBDA i : state.pits[i] > 0)

\* legal_moves() defaulting to player 0 instead of the side to move
legal_moves_default_zero(state) == legal_moves(state, 0)

\* MancalaState.legal_moves(): player defaults to the side to move
legal_moves_default(state) == legal_moves(state, state.player_to_move)

\* opposite_index off by one
opposite_index_shifted(i) == 13 - i

\* opposite_index
opposite_index(i) == 12 - i

\* sum(s.pits[i] for i in s.side_range(p))
RECURSIVE SumSeq(_, _, _)
SumSeq(pits, seq, k) ==
    IF k > Len(seq) THEN 0 ELSE pits[seq[k]] + SumSeq(pits, seq, k + 1)

row_sum(pits, p) == SumSeq(pits, side_range(p), 1)

\* ----------------------------------------------------------- rules engine
\* sowing loop without the test for the opponent's store
RECURSIVE sow_noskip(_, _, _, _)
sow_noskip(pits, idx, stones, player) ==
    IF stones > 0
    THEN LET nidx == (idx + 1) % NumSlots
         IN  sow_noskip([pits EXCEPT ![nidx] = @ + 1], nidx, stones - 1, player)
    ELSE [pits |-> pits, idx |-> idx]

\* sowing loop that steps backwards: "idx - 1" for "idx + 1"
RECURSIVE sow_backwards(_, _, _, _)
sow_backwards(pits, idx, stones, player) ==
    IF stones > 0
    THEN LET nidx == (idx - 1 + NumSlots) % NumSlots
         IN  IF nidx = opponent_mancala_index(player)
             THEN sow_backwards(pits, nidx, stones, player)
             ELSE sow_backwards([pits EXCEPT ![nidx] = @ + 1], nidx, stones - 1, player)
    ELSE [pits |-> pits, idx |-> idx]

\* the sowing loop of apply_move: returns the board and the last index
RECURSIVE sow(_, _, _, _)
sow(pits, idx, stones, player) ==
    IF stones > 0
    THEN LET nidx == (idx + 1) % NumSlots
         IN  IF nidx = opponent_mancala_index(player)
             THEN sow(pits, nidx, stones, player)
             ELSE sow([pits EXCEPT ![nidx] = @ + 1], nidx, stones - 1, player)
    ELSE [pits |-> pits, idx |-> idx]

\* capture step that forgets the landing stone
capture_step_lossy(pits, idx, player) ==
    IF InSeq(idx, side_range(player)) /\ pits[idx] = 1 /\ pits[opposite_index(idx)] > 0
    THEN [pits |-> [pits EXCEPT ![opposite_index(idx)] = 0,
                                ![idx] = 0,
                                ![mancala_index(player)] = @ + pits[opposite_index(idx)]],
          last_move_was_capture |-> TRUE]
    ELSE [pits |-> pits, last_move_was_capture |-> FALSE]

\* capture step that does not look at the opposite pit's count
capture_step_unchecked(pits, idx, player) ==
    IF InSeq(idx, side_range(player)) /\ pits[idx] = 1
    THEN [pits |-> [pits EXCEPT ![opposite_index(idx)] = 0,
                                ![idx] = 0,
                                ![mancala_index(player)] = @ + pits[opposite_index(idx)] + 1],
          last_move_was_capture |-> TRUE]
    ELSE [pits |-> pits, last_move_was_capture |-> FALSE]

\* capture step that tests "pits[idx] >= 1"
capture_step_occupied(pits, idx, player) ==
    IF InSeq(idx, side_range(player)) /\ pits[idx] >= 1 /\ pits[opposite_index(idx)] > 0
    THEN [pits |-> [pits EXCEPT ![opposite_index(idx)] = 0,
                                ![idx] = 0,
                                ![mancala_index(player)] =
                                    @ + pits[opposite_index(idx)] + pits[idx]],
          last_move_was_capture |-> TRUE]
    ELSE [pits |-> pits, last_move_was_capture |-> FALSE]

\* the capture step of apply_move
capture_step(pits, idx, player) ==
    IF InSeq(idx, side_range(player)) /\ pits[idx] = 1
    THEN LET opp == opposite_index(idx)
             captured == pits[opp]
         IN  IF captured > 0
             THEN [pits |-> [pits EXCEPT ![opp] = 0,
                                         ![idx] = 0,
                                         ![mancala_index(player)] = @ + captured + 1],
                   last_move_was_capture |-> TRUE]
             ELSE [pits |-> pits, last_move_was_capture |-> FALSE]
    ELSE [pits |-> pits, last_move_was_capture |-> FALSE]

\* side_empty, the local function of apply_move
side_empty(pits, p) == row_sum(pits, p) = 0

\* harvest that credits the row to the other player's store
harvest_side_swapped(pits, p) ==
    [i \in Slots |->
       IF InSeq(i, side_range(p)) THEN 0
       ELSE IF i = mancala_index(1 - p) THEN pits[i] + row_sum(pits, p)
       ELSE pits[i]]

\* harvest that assigns the row to the store ("=" for "+=")
harvest_side_assign(pits, p) ==
    LET stash == row_sum(pits, p)
    IN  [i \in Slots |->
           IF InSeq(i, side_range(p)) THEN 0
           ELSE IF i = mancala_index(p) THEN stash
           ELSE pits[i]]

\* one pass of "for p in (0,1)": sweep p's row into p's store
harvest_side(pits, p) ==
    LET stash == row_sum(pits, p)
    IN  [i \in Slots |->
           IF InSeq(i, side_range(p)) THEN 0
           ELSE IF i = mancala_index(p) THEN pits[i] + stash
           ELSE pits[i]]

\* end-of-game check that sweeps player 0's row only
harvest_step_one(pits, game_over) ==
    IF side_empty(pits, 0) \/ side_empty(pits, 1)
    THEN [pits |-> harvest_side(pits, 0), game_over |-> TRUE]
    ELSE [pits |-> pits, game_over |-> game_over]

\* end-of-game check that looks at player 0's row only
harvest_step_first(pits, game_over) ==
    IF side_empty(pits, 0)
    THEN [pits |-> harvest_side(harvest_side(pits, 0), 1), game_over |-> TRUE]
    ELSE [pits |-> pits, game_over |-> game_over]

\* the end-of-game check of apply_move
harvest_step(pits, game_over) ==
    IF side_empty(pits, 0) \/ side_empty(pits, 1)
    THEN [pits |-> harvest_side(harvest_side(pits, 0), 1), game_over |-> TRUE]
    ELSE [pits |-> pits, game_over |-> game_over]

\* turn advancement that ignores the continuation rule
next_player_alternate(old_player, game_over, rule, idx, player) ==
    IF ~game_over THEN 1 - player ELSE old_player

\* turn advancement without the "if not s.game_over" guard
next_player_unguarded(old_player, game_over, rule, idx, player) ==
    IF rule /\ idx = mancala_index(player)
    THEN player
    ELSE 1 - player

\* turn advancement with the two branches exchanged
next_player_swapped(old_player, game_over, rule, idx, player) ==
    IF ~game_over
    THEN IF rule /\ idx = mancala_index(player)
         THEN 1 - player
         ELSE player
    ELSE old_player

\* turn advancement of apply_move
next_player(old_player, game_over, rule, idx, player) ==
    IF ~game_over
    THEN IF rule /\ idx = mancala_index(player)
         THEN player
         ELSE 1 - player
    ELSE old_player

\* apply_move.  The result records whether the assertion failed (raised), the
\* returned state (ret, meaningful when not raised) and the values the locals
\* idx and s.pits hold after sowing (sown) and after the capture step (capt).
apply_move(state, move_idx, rule) ==
    LET player == state.player_to_move
    IN  IF ~InSeq(move_idx, legal_moves(state, player))
        THEN [raised |-> TRUE, ret |-> state, idx |-> move_idx,
              sown |-> state.pits, capt |-> state.pits]
        ELSE LET stones == state.pits[move_idx]
                 sw == sow([state.pits EXCEPT ![move_idx] = 0], move_idx, stones, player)
                 cp == capture_step(sw.pits, sw.idx, player)
                 hv == harvest_step(cp.pits, state.game_over)
             IN  [raised |-> FALSE,
                  ret |-> [pits |-> hv.pits,
                           player_to_move |->
                               next_player(state.player_to_move, hv.game_over,
                                           rule, sw.idx, player),
                           last_move_was_capture |-> cp.last_move_was_capture,
                           game_over |-> hv.game_over],
                  idx |-> sw.idx,
                  sown |-> sw.pits,
                  capt |-> cp.pits]

\* utility
utility(state, max_player) ==
    state.pits[mancala_index(max_player)] - state.pits[mancala_index(1 - max_player)]

\* ---------------------------------------------------------------- search
\* _terminal_or_depth
terminal_or_depth(state, depth) == state.game_over \/ depth = 0

\* s2 = state.clone(); s2.player_to_move = 1 - state.player_to_move
pass_turn(state) == [state EXCEPT !.player_to_move = 1 - state.player_to_move]

Max2(a, b) == IF a >= b THEN a ELSE b
Min2(a, b) == IF a <= b THEN a ELSE b

RECURSIVE max_value(_, _, _)
RECURSIVE min_value(_, _, _)
RECURSIVE max_loop(_, _, _, _, _, _)
RECURSIVE min_loop(_, _, _, _, _, _)

\* "for m in legal" of _max_value, from the k-th move on, v so far
max_loop(state, legal, k, depth, max_player, v) ==
    IF k > Len(legal) THEN v
    ELSE LET child == apply_move(state, legal[k], FALSE).ret
         IN  max_loop(state, legal, k + 1, depth, max_player,
                      Max2(v, min_value(child, depth - 1, max_player)))

\* _max_value
max_value(state, depth, max_player) ==
    IF terminal_or_depth(state, depth) THEN utility(state, max_player)
    ELSE LET legal == legal_moves_default(state)
         IN  IF Len(legal) = 0
             THEN min_value(pass_turn(state), depth, max_player)
             ELSE max_loop(state, legal, 1, depth, max_player, -Inf)

\* "for m in legal" of _min_value
min_loop(state, legal, k, depth, max_player, v) ==
    IF k > Len(legal) THEN v
    ELSE LET child == apply_move(state, legal[k], FALSE).ret
         IN  min_loop(state, legal, k + 1, depth, max_player,
                      Min2(v, max_value(child, depth - 1, max_player)))

\* _min_value
min_value(state, depth, max_player) ==
    IF terminal_or_depth(state, depth) THEN utility(state, max_player)
    ELSE LET legal == legal_moves_default(state)
         IN  IF Len(legal) = 0
             THEN max_value(pass_turn(state), depth, max_player)
             ELSE min_loop(state, legal, 1, depth, max_player, Inf)

\* the loop of minimax_policy's policy comparing with ">=": the last of the
\* best moves wins
RECURSIVE minimax_root_last(_, _, _, _, _, _, _)
minimax_root_last(state, legal, k, depth, player, best_score, best_move) ==
    IF k > Len(legal) THEN best_move
    ELSE LET m == legal[k]
             child == apply_move(state, m, FALSE).ret
             score == min_value(child, depth - 1, player)
         IN  IF score >= best_score
             THEN minimax_root_last(state, legal, k + 1, depth, player, score, m)
             ELSE minimax_root_last(state, legal, k + 1, depth, player,
                                    best_score, best_move)

\* the loop of minimax_policy's policy, from the k-th move on
RECURSIVE minimax_root(_, _, _, _, _, _, _)
minimax_root(state, legal, k, depth, player, best_score, best_move) ==
    IF k > Len(legal) THEN best_move
    ELSE LET m == legal[k]
             child == apply_move(state, m, FALSE).ret
             score == min_value(child, depth - 1, player)
         IN  IF score > best_score
             THEN minimax_root(state, legal, k + 1, depth, player, score, m)
             ELSE minimax_root(state, legal, k + 1, depth, player, best_score, best_move)

\* minimax_policy(depth)(state, legal_moves, player)
minimax_policy(depth, state, legal, player) ==
    minimax_root(state, legal, 1, depth, player, -Inf, legal[1])

RECURSIVE ab_max(_, _, _, _, _)
RECURSIVE ab_min(_, _, _, _, _)
RECURSIVE ab_max_loop(_, _, _, _, _, _, _, _)
RECURSIVE ab_min_loop(_, _, _, _, _, _, _, _)
RECURSIVE ab_min_loop_beta(_, _, _, _, _, _, _, _)

\* "for m in legal" of _ab_max, with the beta cutoff
ab_max_loop(state, legal, k, depth, max_player, alpha, beta, v) ==
    IF k > Len(legal) THEN v
    ELSE LET child == apply_move(state, legal[k], FALSE).ret
             v2 == Max2(v, ab_min(child, depth - 1, max_player, alpha, beta))
         IN  IF v2 >= beta THEN v2
             ELSE ab_max_loop(state, legal, k + 1, depth, max_player,
                              Max2(alpha, v2), beta, v2)

\* _ab_max
ab_max(state, depth, max_player, alpha, beta) ==
    IF terminal_or_depth(state, depth) THEN utility(state, max_player)
    ELSE LET legal == legal_moves_default(state)
         IN  IF Len(legal) = 0
             THEN ab_min(pass_turn(state), depth, max_player, alpha, beta)
             ELSE ab_max_loop(state, legal, 1, depth, max_player, alpha, beta, -Inf)

\* _ab_min's loop cutting off on beta instead of alpha
ab_min_loop_beta(state, legal, k, depth, max_player, alpha, beta, v) ==
    IF k > Len(legal) THEN v
    ELSE LET child == apply_move(state, legal[k], FALSE).ret
             v2 == Min2(v, ab_max(child, depth - 1, max_player, alpha, beta))
         IN  IF v2 <= beta THEN v2
             ELSE ab_min_loop_beta(state, legal, k + 1, depth, max_player,
                                   alpha, Min2(beta, v2), v2)

\* "for m in legal" of _ab_min, with the alpha cutoff
ab_min_loop(state, legal, k, depth, max_player, alpha, beta, v) ==
    IF k > Len(legal) THEN v
    ELSE LET child == apply_move(state, legal[k], FALSE).ret
             v2 == Min2(v, ab_max(child, depth - 1, max_player, alpha, beta))
         IN  IF v2 <= alpha THEN v2
             ELSE ab_min_loop(state, legal, k + 1, depth, max_player,
                              alpha, Min2(beta, v2), v2)

\* _ab_min
ab_min(state, depth, max_player, alpha, beta) ==
    IF terminal_or_depth(state, depth) THEN utility(state, max_player)
    ELSE LET legal == legal_moves_default(state)
         IN  IF Len(legal) = 0
             THEN ab_max(pass_turn(state), depth, max_player, alpha, beta)
             ELSE ab_min_loop(state, legal, 1, depth, max_player, alpha, beta, Inf)

\* the loop of alphabeta_policy's policy; beta stays math.inf at the root
RECURSIVE alphabeta_root(_, _, _, _, _, _, _, _)
alphabeta_root(state, legal, k, depth, player, alpha, best_score, best_move) ==
    IF k > Len(legal) THEN best_move
    ELSE LET m == legal[k]
             child == apply_move(state, m, FALSE).ret
             score == ab_min(child, depth - 1, player, alpha, Inf)
             better == score > best_score
             best2 == IF better THEN score ELSE best_score
             move2 == IF better THEN m ELSE best_move
         IN  alphabeta_root(state, legal, k + 1, depth, player,
                            Max2(alpha, best2), best2, move2)

\* alphabeta_policy(depth)(state, legal_moves, player)
alphabeta_policy(depth, state, legal, player) ==
    alphabeta_root(state, legal, 1, depth, player, -Inf, -Inf, legal[1])

\* whether some apply_move call below a search node fails its assertion.
\* The walk is that of _max_value/_min_value; _ab_max/_ab_min visit a part of it.
RECURSIVE node_raises(_, _)
node_raises(state, depth) ==
    IF terminal_or_depth(state, depth) THEN FALSE
    ELSE LET legal == legal_moves_default(state)
         IN  IF Len(legal) = 0
             THEN node_raises(pass_turn(state), depth)
             ELSE \E k \in 1 .. Len(legal) :
                    LET r == apply_move(state, legal[k], FALSE)
                    IN  r.raised \/ node_raises(r.ret, depth - 1)

\* whether a call of a search policy ends in the assertion failure
search_raises(depth, state, legal) ==
    \E k \in 1 .. Len(legal) :
       LET r == apply_move(state, legal[k], FALSE)
       IN  r.raised \/ node_raises(r.ret, depth - 1)

\* a call of a search function: the state and the depth it is given, and
\* whether it is a maximizing (_max_value, _ab_max) or a minimizing
\* (_min_value, _ab_min) call
Node(state, depth, level) == [state |-> state, depth |-> depth, level |-> level]

RECURSIVE max_nodes(_, _, _)
RECURSIVE min_nodes(_, _, _)

\* the calls made by _max_value(state, depth, max_player), itself included
max_nodes(state, depth, max_player) ==
    {Node(state, depth, "max")} \cup
    (IF terminal_or_depth(state, depth) THEN {}
     ELSE LET legal == legal_moves_default(state)
          IN  IF Len(legal) = 0
              THEN min_nodes(pass_turn(state), depth, max_player)
              ELSE UNION {min_nodes(apply_move(state, legal[k], FALSE).ret,
                                    depth - 1, max_player) :
                             k \in 1 .. Len(legal)})

\* the calls made by _min_value(state, depth, max_player), itself included
min_nodes(state, depth, max_player) ==
    {Node(state, depth, "min")} \cup
    (IF terminal_or_depth(state, depth) THEN {}
     ELSE LET legal == legal_moves_default(state)
          IN  IF Len(legal) = 0
              THEN max_nodes(pass_turn(state), depth, max_player)
              ELSE UNION {max_nodes(apply_move(state, legal[k], FALSE).ret,
                                    depth - 1, max_player) :
                             k \in 1 .. Len(legal)})

\* the calls made by minimax_policy(depth)(state, legal_moves, player)
minimax_policy_nodes(depth, state, legal, player) ==
    UNION {min_nodes(apply_move(state, legal[k], FALSE).ret, depth - 1, player) :
             k \in 1 .. Len(legal)}

RECURSIVE ab_max_nodes(_, _, _, _, _)
RECURSIVE ab_min_nodes(_, _, _, _, _)
RECURSIVE ab_max_loop_nodes(_, _, _, _, _, _, _, _)
RECURSIVE ab_min_loop_nodes(_, _, _, _, _, _, _, _)

\* the calls made by the loop of _ab_max from the k-th move on: none after
\* the beta cutoff
ab_max_loop_nodes(state, legal, k, depth, max_player, alpha, beta, v) ==
    IF k > Len(legal) THEN {}
    ELSE LET child == apply_move(state, legal[k], FALSE).ret
             v2 == Max2(v, ab_min(child, depth - 1, max_player, alpha, beta))
         IN  ab_min_nodes(child, depth - 1, max_player, alpha, beta) \cup
             (IF v2 >= beta THEN {}
              ELSE ab_max_loop_nodes(state, legal, k + 1, depth, max_player,
                                     Max2(alpha, v2), beta, v2))

\* the calls made by _ab_max(state, depth, max_player, alpha, beta), itself
\* included
ab_max_nodes(state, depth, max_player, alpha, beta) ==
    {Node(state, depth, "max")} \cup
    (IF terminal_or_depth(state, depth) THEN {}
     ELSE LET legal == legal_moves_default(state)
          IN  IF Len(legal) = 0
              THEN ab_min_nodes(pass_turn(state), depth, max_player, alpha, beta)
              ELSE ab_max_loop_nodes(state, legal, 1, depth, max_player,
                                     alpha, beta, -Inf))

\* the calls made by the loop of _ab_min from the k-th move on: none after
\* the alpha cutoff
ab_min_loop_nodes(state, legal, k, depth, max_player, alpha, beta, v) ==
    IF k > Len(legal) THEN {}
    ELSE LET child == apply_move(state, legal[k], FALSE).ret
             v2 == Min2(v, ab_max(child, depth - 1, max_player, alpha, beta))
         IN  ab_max_nodes(child, depth - 1, max_player, alpha, beta) \cup
             (IF v2 <= alpha THEN {}
              ELSE ab_min_loop_nodes(state, legal, k + 1, depth, max_player,
                                     alpha, Min2(beta, v2), v2))

\* the calls made by _ab_min(state, depth, max_player, alpha, beta), itself
\* included
ab_min_nodes(state, depth, max_player, alpha, beta) ==
    {Node(state, depth, "min")} \cup
    (IF terminal_or_depth(state, depth) THEN {}
     ELSE LET legal == legal_moves_default(state)
          IN  IF Len(legal) = 0
              THEN ab_max_nodes(pass_turn(state), depth, max_player, alpha, beta)
              ELSE ab_min_loop_nodes(state, legal, 1, depth, max_player,
                                     alpha, beta, Inf))

\* the calls made by the loop of alphabeta_policy's policy from the k-th
\* move on
RECURSIVE alphabeta_root_nodes(_, _, _, _, _, _, _)
alphabeta_root_nodes(state, legal, k, depth, player, alpha, best_score) ==
    IF k > Len(legal) THEN {}
    ELSE LET child == apply_move(state, legal[k], FALSE).ret
             score == ab_min(child, depth - 1, player, alpha, Inf)
             best2 == IF score > best_score THEN score ELSE best_score
         IN  ab_min_nodes(child, depth - 1, player, alpha, Inf) \cup
             alphabeta_root_nodes(state, legal, k + 1, depth, player,
                                  Max2(alpha, best2), best2)

\* the calls made by alphabeta_policy(depth)(state, legal_moves, player)
alphabeta_policy_nodes(depth, state, legal, player) ==
    alphabeta_root_nodes(state, legal, 1, depth, player, -Inf, -Inf)

\* the policies play_game is given: random_policy, minimax_policy(depth),
\* alphabeta_policy(depth)
RandomPolicy == [kind |-> "random", depth |-> 0]
SearchPolicies ==
    [kind : {"minimax", "alphabeta"}, depth : 1 .. MaxDepth]
Policies == {RandomPolicy} \cup SearchPolicies

\* whether policy(state, legal, player) raises instead of returning
policy_raises(policy, state, legal, player) ==
    /\ policy.kind # "random"
    /\ search_raises(policy.depth, state, legal)

\* the indices policy(state, legal, player) can return
policy_choices(policy, state, legal, player) ==
    IF policy.kind = "random"
    THEN {legal[k] : k \in 1 .. Len(legal)}
    ELSE IF policy.kind = "minimax"
    THEN {minimax_policy(policy.depth, state, legal, player)}
    ELSE {alphabeta_policy(policy.depth, state, legal, player)}

\* the search calls policy(state, legal, player) makes
policy_nodes(policy, state, legal, player) ==
    IF policy.kind = "random" THEN {}
    ELSE IF policy.kind = "minimax"
    THEN minimax_policy_nodes(policy.depth, state, legal, player)
    ELSE alphabeta_policy_nodes(policy.depth, state, legal, player)

\* ---------------------------------------------------------------- objects
\* The same code on Python objects.  A store holds the MancalaState objects
\* (objs) and the lists (lists) allocated so far; an object holds the index
\* of its list pits and its three plain fields; a reference is an index in
\* objs.

\* body applied to the value of x
Bind(x, body(_)) == CHOOSE y \in {body(e) : e \in {x}} : TRUE

\* a store holding one object with the field values of state, and its list
NewStore(state) ==
    [objs |-> <<[pits |-> 1,
                 player_to_move |-> state.player_to_move,
                 last_move_was_capture |-> state.last_move_was_capture,
                 game_over |-> state.game_over]>>,
     lists |-> <<state.pits>>]

\* the field values read through the reference ref
Deref(store, ref) ==
    LET o == store.objs[ref]
    IN  [pits |-> store.lists[o.pits],
         player_to_move |-> o.player_to_move,
         last_move_was_capture |-> o.last_move_was_capture,
         game_over |-> o.game_over]

\* clone that passes self.pits on instead of the copy self.pits[:]
clone_shallow(store, ref) ==
    [store |-> [objs |-> Append(store.objs, store.objs[ref]),
                lists |-> store.lists],
     ref |-> Len(store.objs) + 1]

\* MancalaState.clone: a new object with a new list holding the same values
clone(store, ref) ==
    [store |-> [objs |-> Append(store.objs,
                                [store.objs[ref] EXCEPT !.pits = Len(store.lists) + 1]),
                lists |-> Append(store.lists, store.lists[store.objs[ref].pits])],
     ref |-> Len(store.objs) + 1]

\* the assignments to s.pits[...], s.last_move_was_capture, s.game_over and
\* s.player_to_move: the object ref and the list it holds take the values of
\* state
assign(store, ref, state) ==
    [objs |-> [store.objs EXCEPT ![ref] =
                  [pits |-> @.pits,
                   player_to_move |-> state.player_to_move,
                   last_move_was_capture |-> state.last_move_was_capture,
                   game_over |-> state.game_over]],
     lists |-> [store.lists EXCEPT ![store.objs[ref].pits] = state.pits]]

\* the objects and lists allocated after the store was as large as mark are
\* dropped: the locals that referred to them are gone
release(store, mark) ==
    [objs |-> SubSeq(store.objs, 1, Len(mark.objs)),
     lists |-> SubSeq(store.lists, 1, Len(mark.lists))]

\* apply_move on objects: s = state.clone(), then every read and write goes
\* through s; ref is the object returned, 0 when the assertion failed
apply_move_obj(store, ref, move_idx, rule) ==
    Bind(clone(store, ref), LAMBDA c :
      Bind(apply_move(Deref(c.store, c.ref), move_idx, rule), LAMBDA r :
        IF r.raised
        THEN [store |-> c.store, ref |-> 0, raised |-> TRUE]
        ELSE [store |-> assign(c.store, c.ref, r.ret), ref |-> c.ref, raised |-> FALSE]))

\* s2 = state.clone(); s2.player_to_move = 1 - state.player_to_move
pass_turn_obj(store, ref) ==
    LET c == clone(store, ref)
    IN  [store |-> [c.store EXCEPT !.objs[c.ref].player_to_move =
                       1 - store.objs[ref].player_to_move],
         ref |-> c.ref]

RECURSIVE max_value_obj(_, _, _, _)
RECURSIVE min_value_obj(_, _, _, _)
RECURSIVE max_loop_obj(_, _, _, _, _, _, _)
RECURSIVE min_loop_obj(_, _, _, _, _, _, _)

\* "for m in legal" of _max_value on objects, from the k-th move on: child is a
\* new object for each move, dropped when the next one is made
max_loop_obj(store, ref, legal, k, depth, max_player, v) ==
    IF k > Len(legal) THEN [store |-> store, v |-> v, raised |-> FALSE]
    ELSE Bind(apply_move_obj(store, ref, legal[k], FALSE), LAMBDA a :
           IF a.raised
           THEN [store |-> release(a.store, store), v |-> v, raised |-> TRUE]
           ELSE Bind(min_value_obj(a.store, a.ref, depth - 1, max_player), LAMBDA r :
                  LET back == release(r.store, store)
                      v2 == Max2(v, r.v)
                  IN  IF r.raised
                      THEN [store |-> back, v |-> v, raised |-> TRUE]
                      ELSE max_loop_obj(back, ref, legal, k + 1, depth, max_player, v2)))

\* _max_value on objects
max_value_obj(store, ref, depth, max_player) ==
    LET state == Deref(store, ref)
        legal == legal_moves_default(state)
    IN  IF terminal_or_depth(state, depth)
        THEN [store |-> store, v |-> utility(state, max_player), raised |-> FALSE]
        ELSE IF Len(legal) = 0
        THEN Bind(pass_turn_obj(store, ref), LAMBDA s2 :
               Bind(min_value_obj(s2.store, s2.ref, depth, max_player), LAMBDA r :
                  [r EXCEPT !.store = release(r.store, store)]))
        ELSE max_loop_obj(store, ref, legal, 1, depth, max_player, -Inf)

\* "for m in legal" of _min_value on objects, from the k-th move on: child is a
\* new object for each move, dropped when the next one is made
min_loop_obj(store, ref, legal, k, depth, max_player, v) ==
    IF k > Len(legal) THEN [store |-> store, v |-> v, raised |-> FALSE]
    ELSE Bind(apply_move_obj(store, ref, legal[k], FALSE), LAMBDA a :
           IF a.raised
           THEN [store |-> release(a.store, store), v |-> v, raised |-> TRUE]
           ELSE Bind(max_value_obj(a.store, a.ref, depth - 1, max_player), LAMBDA r :
                  LET back == release(r.store, store)
                      v2 == Min2(v, r.v)
                  IN  IF r.raised
                      THEN [store |-> back, v |-> v, raised |-> TRUE]
                      ELSE min_loop_obj(back, ref, legal, k + 1, depth, max_player, v2)))

\* _min_value on objects
min_value_obj(store, ref, depth, max_player) ==
    LET state == Deref(store, ref)
        legal == legal_moves_default(state)
    IN  IF terminal_or_depth(state, depth)
        THEN [store |-> store, v |-> utility(state, max_player), raised |-> FALSE]
        ELSE IF Len(legal) = 0
        THEN Bind(pass_turn_obj(store, ref), LAMBDA s2 :
               Bind(max_value_obj(s2.store, s2.ref, depth, max_player), LAMBDA r :
                  [r EXCEPT !.store = release(r.store, store)]))
        ELSE min_loop_obj(store, ref, legal, 1, depth, max_player, Inf)

\* the loop of minimax_policy's policy on objects, from the k-th move on;
\* legal is the list the caller computed before the call
RECURSIVE minimax_root_obj(_, _, _, _, _, _, _, _)
minimax_root_obj(store, ref, legal, k, depth, player, best_score, best_move) ==
    IF k > Len(legal) THEN [store |-> store, move |-> best_move, raised |-> FALSE]
    ELSE Bind(apply_move_obj(store, ref, legal[k], FALSE), LAMBDA a :
           IF a.raised
           THEN [store |-> release(a.store, store), move |-> best_move, raised |-> TRUE]
           ELSE Bind(min_value_obj(a.store, a.ref, depth - 1, player), LAMBDA r :
                  LET back == release(r.store, store)
                  IN  IF r.raised
                      THEN [store |-> back, move |-> best_move, raised |-> TRUE]
                      ELSE IF r.v > best_score
                      THEN minimax_root_obj(back, ref, legal, k + 1, depth, player,
                                            r.v, legal[k])
                      ELSE minimax_root_obj(back, ref, legal, k + 1, depth, player,
                                            best_score, best_move)))

\* minimax_policy(depth)(state, legal_moves, player) on objects
minimax_policy_obj(depth, store, ref, legal, player) ==
    minimax_root_obj(store, ref, legal, 1, depth, player, -Inf, legal[1])

RECURSIVE ab_max_obj(_, _, _, _, _, _)
RECURSIVE ab_min_obj(_, _, _, _, _, _)
RECURSIVE ab_max_loop_obj(_, _, _, _, _, _, _, _, _)
RECURSIVE ab_min_loop_obj(_, _, _, _, _, _, _, _, _)

\* "for m in legal" of _ab_max on objects, from the k-th move on: child is a
\* new object for each move, dropped when the next one is made
ab_max_loop_obj(store, ref, legal, k, depth, max_player, alpha, beta, v) ==
    IF k > Len(legal) THEN [store |-> store, v |-> v, raised |-> FALSE]
    ELSE Bind(apply_move_obj(store, ref, legal[k], FALSE), LAMBDA a :
           IF a.raised
           THEN [store |-> release(a.store, store), v |-> v, raised |-> TRUE]
           ELSE Bind(ab_min_obj(a.store, a.ref, depth - 1, max_player, alpha, beta), LAMBDA r :
                  LET back == release(r.store, store)
                      v2 == Max2(v, r.v)
                  IN  IF r.raised
                      THEN [store |-> back, v |-> v, raised |-> TRUE]
                      ELSE IF v2 >= beta
                         THEN [store |-> back, v |-> v2, raised |-> FALSE]
                         ELSE ab_max_loop_obj(back, ref, legal, k + 1, depth, max_player,
                                Max2(alpha, v2), beta, v2)))

\* _ab_max on objects
ab_max_obj(store, ref, depth, max_player, alpha, beta) ==
    LET state == Deref(store, ref)
        legal == legal_moves_default(state)
    IN  IF terminal_or_depth(state, depth)
        THEN [store |-> store, v |-> utility(state, max_player), raised |-> FALSE]
        ELSE IF Len(legal) = 0
        THEN Bind(pass_turn_obj(store, ref), LAMBDA s2 :
               Bind(ab_min_obj(s2.store, s2.ref, depth, max_player, alpha, beta), LAMBDA r :
                  [r EXCEPT !.store = release(r.store, store)]))
        ELSE ab_max_loop_obj(store, ref, legal, 1, depth, max_player, alpha, beta, -Inf)

\* "for m in legal" of _ab_min on objects, from the k-th move on: child is a
\* new object for each move, dropped when the next one is made
ab_min_loop_obj(store, ref, legal, k, depth, max_player, alpha, beta, v) ==
    IF k > Len(legal) THEN [store |-> store, v |-> v, raised |-> FALSE]
    ELSE Bind(apply_move_obj(store, ref, legal[k], FALSE), LAMBDA a :
           IF a.raised
           THEN [store |-> release(a.store, store), v |-> v, raised |-> TRUE]
           ELSE Bind(ab_max_obj(a.store, a.ref, depth - 1, max_player, alpha, beta), LAMBDA r :
                  LET back == release(r.store, store)
                      v2 == Min2(v, r.v)
                  IN  IF r.raised
                      THEN [store |-> back, v |-> v, raised |-> TRUE]
                      ELSE IF v2 <= alpha
                         THEN [store |-> back, v |-> v2, raised |-> FALSE]
                         ELSE ab_min_loop_obj(back, ref, legal, k + 1, depth, max_player,
                                alpha, Min2(beta, v2), v2)))

\* _ab_min on objects
ab_min_obj(store, ref, depth, max_player, alpha, beta) ==
    LET state == Deref(store, ref)
        legal == legal_moves_default(state)
    IN  IF terminal_or_depth(state, depth)
        THEN [store |-> store, v |-> utility(state, max_player), raised |-> FALSE]
        ELSE IF Len(legal) = 0
        THEN Bind(pass_turn_obj(store, ref), LAMBDA s2 :
               Bind(ab_max_obj(s2.store, s2.ref, depth, max_player, alpha, beta), LAMBDA r :
                  [r EXCEPT !.store = release(r.store, store)]))
        ELSE ab_min_loop_obj(store, ref, legal, 1, depth, max_player, alpha, beta, Inf)

\* the loop of alphabeta_policy's policy on objects, from the k-th move on
RECURSIVE alphabeta_root_obj(_, _, _, _, _, _, _, _, _)
alphabeta_root_obj(store, ref, legal, k, depth, player, alpha, best_score, best_move) ==
    IF k > Len(legal) THEN [store |-> store, move |-> best_move, raised |-> FALSE]
    ELSE Bind(apply_move_obj(store, ref, legal[k], FALSE), LAMBDA a :
           IF a.raised
           THEN [store |-> release(a.store, store), move |-> best_move, raised |-> TRUE]
           ELSE Bind(ab_min_obj(a.store, a.ref, depth - 1, player, alpha, Inf), LAMBDA r :
                  LET back == release(r.store, store)
                      better == r.v > best_score
                      best2 == IF better THEN r.v ELSE best_score
                      move2 == IF better THEN legal[k] ELSE best_move
                  IN  IF r.raised
                      THEN [store |-> back, move |-> best_move, raised |-> TRUE]
                      ELSE alphabeta_root_obj(back, ref, legal, k + 1, depth, player,
                                              Max2(alpha, best2), best2, move2)))

\* alphabeta_policy(depth)(state, legal_moves, player) on objects
alphabeta_policy_obj(depth, store, ref, legal, player) ==
    alphabeta_root_obj(store, ref, legal, 1, depth, player, -Inf, -Inf, legal[1])

\* ------------------------------------------------------------------ state
VARIABLES
    s,                  \* the current MancalaState (play_game's s)
    stones_per_pit,     \* the argument standard_start was given
    p0_policy,          \* play_game: player 0's policy
    p1_policy,          \* play_game: player 1's policy
    continuation_rule,  \* the rule flag passed to apply_move
    max_moves,          \* play_game: the ceiling
    moves,              \* play_game: the move counter
    pc,                 \* "loop", "done" (returned), "raised"; "direct" for direct calls
    applied,            \* number of apply_move calls that returned a state
    last,               \* the most recent apply_move call and its locals
    mem                 \* the objects before and after the most recent call
                        \* made on objects, and the references it took and gave

vars == <<s, stones_per_pit, p0_policy, p1_policy, continuation_rule,
          max_moves, moves, pc, applied, last, mem>>

NoCall(state) ==
    [called |-> FALSE, before |-> state, move_idx |-> -1, raised |-> FALSE,
     idx |-> -1, sown |-> state.pits, capt |-> state.pits]

Call(state, m, r) ==
    [called |-> TRUE, before |-> state, move_idx |-> m, raised |-> r.raised,
     idx |-> r.idx, sown |-> r.sown, capt |-> r.capt]

\* no call on objects was made
NoMem == [op |-> "none"]

\* ------------------------------------------------------------- play_game
\* play_game up to the loop, with random_policy on both sides: every choice
\* of legal moves.  play_game starts from standard_start(), 4 stones per pit;
\* the start is also taken over standard_start(n) for small n, where games
\* end within MaxMoves moves.
Init ==
    /\ \/ /\ stones_per_pit \in 1 .. MaxStones
          /\ max_moves \in 0 .. MaxMoves
       \/ /\ stones_per_pit = DefaultStones
          /\ max_moves \in 0 .. ShortMoves
    /\ s = standard_start(stones_per_pit)
    /\ p0_policy = RandomPolicy
    /\ p1_policy = RandomPolicy
    /\ continuation_rule \in BOOLEAN
    /\ moves = 0
    /\ pc = "loop"
    /\ applied = 0
    /\ last = NoCall(s)
    /\ mem = NoMem

\* loop condition with "<=" for "<"
loop_condition_le(state, n, ceiling) == ~state.game_over /\ n <= ceiling

\* the condition of the while loop of play_game
loop_condition(state, n, ceiling) == ~state.game_over /\ n < ceiling

\* one iteration of the while loop of play_game
LoopIteration ==
    /\ pc = "loop"
    /\ loop_condition(s, moves, max_moves)
    /\ LET player == s.player_to_move
           policy == IF player = 0 THEN p0_policy ELSE p1_policy
           legal == legal_moves_default(s)
       IN  IF Len(legal) = 0
           THEN /\ s' = [s EXCEPT !.player_to_move = 1 - player]
                /\ UNCHANGED <<moves, pc, applied, last>>
           ELSE IF policy_raises(policy, s, legal, player)
           THEN /\ pc' = "raised"
                /\ UNCHANGED <<s, moves, applied, last>>
           ELSE \E m \in policy_choices(policy, s, legal, player) :
                  LET r == apply_move(s, m, continuation_rule)
                  IN  /\ last' = Call(s, m, r)
                      /\ IF r.raised
                         THEN /\ pc' = "raised"
                              /\ UNCHANGED <<s, moves, applied>>
                         ELSE /\ s' = r.ret
                              /\ moves' = moves + 1
                              /\ applied' = applied + 1
                              /\ pc' = pc
    /\ UNCHANGED <<stones_per_pit, p0_policy, p1_policy, continuation_rule,
                   max_moves, mem>>

\* the loop condition fails: return s, moves
Return ==
    /\ pc = "loop"
    /\ ~loop_condition(s, moves, max_moves)
    /\ pc' = "done"
    /\ UNCHANGED <<s, stones_per_pit, p0_policy, p1_policy, continuation_rule,
                   max_moves, moves, applied, last, mem>>

Next == LoopIteration \/ Return

Spec == Init /\ [][Next]_vars

\* ---------------------------------------------- play_game, search policies
\* games with any pairing of random, minimax and alpha-beta policies under the
\* ceiling SearchMoves, and games between two search policies under MaxMoves
\* and, from the default start, under SearchMoves
InitSearch ==
    /\ \/ /\ stones_per_pit \in 1 .. MaxStones
          /\ p0_policy \in Policies
          /\ p1_policy \in Policies
          /\ max_moves = SearchMoves
       \/ /\ stones_per_pit \in 1 .. MaxStones
          /\ p0_policy \in SearchPolicies
          /\ p1_policy \in SearchPolicies
          /\ max_moves = MaxMoves
       \/ /\ stones_per_pit = DefaultStones
          /\ p0_policy \in SearchPolicies
          /\ p1_policy \in SearchPolicies
          /\ max_moves = SearchMoves
    /\ s = standard_start(stones_per_pit)
    /\ continuation_rule \in BOOLEAN
    /\ moves = 0
    /\ pc = "loop"
    /\ applied = 0
    /\ last = NoCall(s)
    /\ mem = NoMem

SpecSearch == InitSearch /\ [][Next]_vars

\* --------------------------------------------------- play_game, scheduled
\* games of random policies under every ceiling up to SearchMoves (from the
\* default start, below SearchMoves), and games between two depth-1 search
\* policies under the ceiling MaxMoves
DepthOnePolicies == [kind : {"minimax", "alphabeta"}, depth : {1}]

InitFair ==
    /\ \/ /\ stones_per_pit \in 1 .. MaxStones
          /\ p0_policy = RandomPolicy
          /\ p1_policy = RandomPolicy
          /\ max_moves \in 0 .. SearchMoves
       \/ /\ stones_per_pit = DefaultStones
          /\ p0_policy = RandomPolicy
          /\ p1_policy = RandomPolicy
          /\ max_moves \in 0 .. (SearchMoves - 1)
       \/ /\ stones_per_pit \in 1 .. MaxStones
          /\ p0_policy \in DepthOnePolicies
          /\ p1_policy \in DepthOnePolicies
          /\ max_moves = MaxMoves
    /\ s = standard_start(stones_per_pit)
    /\ continuation_rule \in BOOLEAN
    /\ moves = 0
    /\ pc = "loop"
    /\ applied = 0
    /\ last = NoCall(s)
    /\ mem = NoMem

\* play_game is sequential code: a step that can be taken is taken
SpecFair == InitFair /\ [][Next]_vars /\ WF_vars(Next)

\* ------------------------------------------------- play_game, to the end
\* the state of play_game after the loop iterations in which the policies
\* chose the moves seq[k], seq[k+1], ...
RECURSIVE play_moves(_, _, _, _)
play_moves(state, seq, k, rule) ==
    IF k > Len(seq) THEN state
    ELSE play_moves(apply_move(state, seq[k], rule).ret, seq, k + 1, rule)

\* opening moves of games from standard_start(1); no move of them ends in a
\* store, so they are the same game with the rule on and off
Openings ==
    {<<1, 7, 4, 11, 3, 10, 0, 12, 5>>,
     <<4, 7, 5, 7, 1, 9, 3, 11>>,
     <<1, 10, 0, 7, 2, 9, 3>>}

\* openings after which a game is at most 9 moves from its end
LateOpenings ==
    {<<2, 11, 0, 7, 1, 10, 4, 12, 2, 11>>,
     <<0, 11, 2, 12, 1, 8, 2, 10, 4, 11>>,
     <<1, 8, 2, 11, 3, 12, 0, 7, 1, 9>>,
     <<3, 11, 1, 12, 0, 10, 2, 9, 3>>}

\* play_game under its default ceiling, taken up after one of the openings
\* and played on by two policies of the set pols
InitEndgame(openings, pols) ==
    /\ stones_per_pit = 1
    /\ continuation_rule \in BOOLEAN
    /\ \E o \in openings :
          /\ s = play_moves(standard_start(stones_per_pit), o, 1, continuation_rule)
          /\ moves = Len(o)
          /\ applied = Len(o)
    /\ p0_policy \in pols
    /\ p1_policy \in pols
    /\ max_moves = DefaultMaxMoves
    /\ pc = "loop"
    /\ last = NoCall(s)
    /\ mem = NoMem

\* search policies built with any depth from 0 on
DepthPolicies == [kind : {"minimax", "alphabeta"}, depth : 0 .. MaxDepth]

\* games between random and search policies of any pairing, to the end
SpecEndgame ==
    InitEndgame(LateOpenings, {RandomPolicy} \cup DepthPolicies) /\ [][Next]_vars

\* any legal moves to the end of the game; play_game is sequential code: a
\* step that can be taken is taken
SpecEndless ==
    InitEndgame(Openings, {RandomPolicy}) /\ [][Next]_vars /\ WF_vars(Next)

\* ------------------------------------------------ direct calls of apply_move
\* a board with own_base stones in each pit of the mover's row, opp_base in
\* each pit of the other row, and k stones in pit p
Board(player, own_base, opp_base, p, k) ==
    [pits |-> [i \in Slots |->
                 IF i = p THEN k
                 ELSE IF i = 6 \/ i = 13 THEN 0
                 ELSE IF InSeq(i, side_range(player)) THEN own_base
                 ELSE opp_base],
     player_to_move |-> player,
     last_move_was_capture |-> FALSE,
     game_over |-> FALSE]

\* a finished game: rows swept, a and b in the stores
Finished(player, a, b) ==
    [pits |-> [i \in Slots |-> IF i = 6 THEN a ELSE IF i = 13 THEN b ELSE 0],
     player_to_move |-> player,
     last_move_was_capture |-> FALSE,
     game_over |-> TRUE]

\* the position of play_game after the moves 0,12,4,8,0,9,0,10,0,12,2,11 from
\* standard_start(4) with continuation_rule off; player 0 is to move
LapPosition ==
    [pits |-> [i \in Slots |-> <<2, 13, 1, 7, 2, 6, 2, 6, 1, 1, 0, 0, 1, 6>>[i + 1]],
     player_to_move |-> 0,
     last_move_was_capture |-> FALSE,
     game_over |-> FALSE]

RowSlots == (0 .. 5) \cup (7 .. 12)

InputStates ==
    {Board(pl, ob, pb, p, k) :
        pl \in {0, 1}, ob \in {0, 1}, pb \in {0, 1}, p \in RowSlots, k \in 0 .. MaxPit}
    \cup {standard_start(n) : n \in 0 .. DefaultStones}
    \cup {Finished(pl, a, b) : pl \in {0, 1}, a \in {0, 7}, b \in {0, 5}}
    \cup {LapPosition}

InitApply ==
    /\ stones_per_pit = DefaultStones
    /\ s \in InputStates
    /\ p0_policy = RandomPolicy
    /\ p1_policy = RandomPolicy
    /\ continuation_rule \in BOOLEAN
    /\ max_moves = MaxCalls
    /\ moves = 0
    /\ pc = "direct"
    /\ applied = 0
    /\ last = NoCall(s)
    /\ mem = NoMem

\* apply_move(s, move_idx, continuation_rule) called with any index; the
\* caller keeps the returned state, or s when the call raised
DirectCall ==
    /\ pc = "direct"
    /\ moves < max_moves
    /\ \E move_idx \in -1 .. NumSlots :
          LET r == apply_move(s, move_idx, continuation_rule)
          IN  /\ last' = Call(s, move_idx, r)
              /\ IF r.raised
                 THEN UNCHANGED <<s, applied>>
                 ELSE /\ s' = r.ret
                      /\ applied' = applied + 1
    /\ moves' = moves + 1
    /\ UNCHANGED <<stones_per_pit, p0_policy, p1_policy, continuation_rule,
                   max_moves, pc, mem>>

NextApply == DirectCall

SpecApply == InitApply /\ [][NextApply]_vars

\* ------------------------------------------------- direct calls on objects
\* boards, standard starts, finished games and positions late in a game
ObjectInputs ==
    {Board(pl, ob, pb, 1, 2) : pl \in {0, 1}, ob \in {0, 1}, pb \in {0, 1}}
    \cup {Board(pl, ob, pb, 10, MaxPit) : pl \in {0, 1}, ob \in {0, 1}, pb \in {0, 1}}
    \cup {standard_start(n) : n \in {0, 1, DefaultStones}}
    \cup {Finished(pl, a, b) : pl \in {0, 1}, a \in {0, 7}, b \in {0, 5}}
    \cup {LapPosition}
    \cup {play_moves(standard_start(1), o, 1, FALSE) : o \in LateOpenings}

\* the caller holds one state object, s, and calls a function on it
InitObjects ==
    /\ stones_per_pit = DefaultStones
    /\ s \in ObjectInputs
    /\ p0_policy = RandomPolicy
    /\ p1_policy = RandomPolicy
    /\ continuation_rule = FALSE
    /\ max_moves = 1
    /\ moves = 0
    /\ pc = "object"
    /\ applied = 0
    /\ last = NoCall(s)
    /\ mem = NoMem

\* whether some pit of either row holds a stone
HasStones(state) == \E i \in RowSlots : state.pits[i] > 0

\* s2 = apply_move(s, move_idx, rule) with any index and either rule; the
\* caller goes on with s2, or with s when the call raised
ApplyMoveCall ==
    /\ pc = "object"
    /\ moves < max_moves
    /\ \E move_idx \in -1 .. NumSlots, rule \in BOOLEAN :
          LET pre == NewStore(s)
          IN  \E r \in {apply_move_obj(pre, 1, move_idx, rule)} :
              /\ mem' = [op |-> "apply_move", fn |-> "apply_move", depth |-> 0,
                         arg |-> <<move_idx, rule>>, pre |-> pre, post |-> r.store,
                         given |-> 1, got |-> r.ref, raised |-> r.raised, out |-> 0]
              /\ IF r.raised
                 THEN UNCHANGED <<s, applied>>
                 ELSE /\ s' = Deref(r.store, r.ref)
                      /\ applied' = applied + 1
    /\ moves' = moves + 1
    /\ UNCHANGED <<stones_per_pit, p0_policy, p1_policy, continuation_rule,
                   max_moves, pc, last>>

\* m = policy(s, legal, player) for a search policy, legal being the legal
\* moves of either player
PolicyCall ==
    /\ pc = "object"
    /\ moves < max_moves
    /\ \E policy \in SearchPolicies, player \in {0, 1} :
          LET pre == NewStore(s)
              legal == legal_moves(s, player)
          IN  /\ Len(legal) > 0
              /\ \E r \in {IF policy.kind = "minimax"
                            THEN minimax_policy_obj(policy.depth, pre, 1, legal, player)
                            ELSE alphabeta_policy_obj(policy.depth, pre, 1, legal, player)} :
                 mem' = [op |-> "policy", fn |-> policy.kind, depth |-> policy.depth,
                         arg |-> player, pre |-> pre, post |-> r.store,
                         given |-> 1, got |-> 0, raised |-> r.raised, out |-> r.move]
    /\ moves' = moves + 1
    /\ UNCHANGED <<stones_per_pit, s, p0_policy, p1_policy, continuation_rule,
                   max_moves, pc, applied, last>>

SearchFunctions == {"_max_value", "_min_value", "_ab_max", "_ab_min"}

\* the value-level result of the search function fn
search_value(fn, state, depth, max_player) ==
    IF fn = "_max_value" THEN max_value(state, depth, max_player)
    ELSE IF fn = "_min_value" THEN min_value(state, depth, max_player)
    ELSE IF fn = "_ab_max" THEN ab_max(state, depth, max_player, -Inf, Inf)
    ELSE ab_min(state, depth, max_player, -Inf, Inf)

\* v = fn(s, depth, max_player) for one of the four search functions, with
\* the depths the policies call them with or less and the full window for
\* the alpha-beta ones; a state that is not over and has
\* no stone in either row is left out: the pass steps call each other on it
\* without end
SearchCall ==
    /\ pc = "object"
    /\ moves < max_moves
    /\ s.game_over \/ HasStones(s)
    /\ \E fn \in SearchFunctions, depth \in 0 .. MaxDepth - 1, max_player \in {0, 1} :
          LET pre == NewStore(s)
          IN  \E r \in {IF fn = "_max_value" THEN max_value_obj(pre, 1, depth, max_player)
                        ELSE IF fn = "_min_value" THEN min_value_obj(pre, 1, depth, max_player)
                        ELSE IF fn = "_ab_max"
                        THEN ab_max_obj(pre, 1, depth, max_player, -Inf, Inf)
                        ELSE ab_min_obj(pre, 1, depth, max_player, -Inf, Inf)} :
              mem' = [op |-> "search", fn |-> fn, depth |-> depth,
                      arg |-> max_player, pre |-> pre, post |-> r.store,
                      given |-> 1, got |-> 0, raised |-> r.raised, out |-> r.v]
    /\ moves' = moves + 1
    /\ UNCHANGED <<stones_per_pit, s, p0_policy, p1_policy, continuation_rule,
                   max_moves, pc, applied, last>>

NextObjects == ApplyMoveCall \/ PolicyCall \/ SearchCall

SpecObjects == InitObjects /\ [][NextObjects]_vars

\* -------------------------------------------------------------- properties
Total(p) ==
    p[0] + p[1] + p[2] + p[3] + p[4] + p[5] + p[6]
    + p[7] + p[8] + p[9] + p[10] + p[11] + p[12] + p[13]
Row0(p) == p[0] + p[1] + p[2] + p[3] + p[4] + p[5]
Row1(p) == p[7] + p[8] + p[9] + p[10] + p[11] + p[12]
OwnRow(pl) == IF pl = 0 THEN 0 .. 5 ELSE 7 .. 12
Store(pl) == IF pl = 0 THEN 6 ELSE 13

\* the last apply_move call returned a state, which is s
Returned == last.called /\ ~last.raised
Mover == last.before.player_to_move

\* the policy play_game calls next
MoverPolicy == IF s.player_to_move = 0 THEN p0_policy ELSE p1_policy

\* C1: every apply_move of a game from standard_start(n) keeps the sum of the
\* 14 pits, so the total is 12*n in every reachable state, captures and
\* harvests included
C1_Conservation ==
    /\ Total(s.pits) = 12 * stones_per_pit
    /\ Returned => Total(s.pits) = Total(last.before.pits)

\* C1 witness: a move that captured and then triggered the harvest
C1_Witness ==
    /\ Returned /\ s.last_move_was_capture /\ s.game_over
    /\ last.capt # last.sown /\ s.pits # last.capt

\* C2: at every non-terminal position where a search policy of depth d is to
\* move, alphabeta_policy(d) and minimax_policy(d) return the same move
C2_AlphaBetaEqualsMinimax ==
    (/\ pc = "loop" /\ ~s.game_over
     /\ Len(legal_moves_default(s)) > 0
     /\ MoverPolicy.kind # "random") =>
        LET legal == legal_moves_default(s)
            player == s.player_to_move
            d == MoverPolicy.depth
        IN  alphabeta_policy(d, s, legal, player) = minimax_policy(d, s, legal, player)

\* C2 witness: at full depth the chosen move is not the first legal one, and a
\* cutoff made a later sibling's alpha-beta value differ from its minimax value
C2_Witness ==
    /\ pc = "loop" /\ ~s.game_over /\ Len(legal_moves_default(s)) > 1
    /\ MoverPolicy.kind # "random" /\ MoverPolicy.depth = MaxDepth
    /\ LET legal == legal_moves_default(s)
           player == s.player_to_move
           first == min_value(apply_move(s, legal[1], FALSE).ret, MaxDepth - 1, player)
       IN  /\ minimax_policy(MaxDepth, s, legal, player) # legal[1]
           /\ alphabeta_policy(MaxDepth, s, legal, player) # legal[1]
           /\ \E k \in 2 .. Len(legal) :
                 LET child == apply_move(s, legal[k], FALSE).ret
                 IN  ab_min(child, MaxDepth - 1, player, first, Inf)
                       # min_value(child, MaxDepth - 1, player)

\* C3: when a row sums to zero after sowing and capture, the returned state is
\* game over, all row pits are zero and each store gained its own row;
\* otherwise game_over stays false and the board is that after the capture step
C3_TerminalHarvest ==
    Returned =>
        LET c == last.capt
        IN  IF Row0(c) = 0 \/ Row1(c) = 0
            THEN /\ s.game_over
                 /\ \A i \in RowSlots : s.pits[i] = 0
                 /\ s.pits[6] = c[6] + Row0(c)
                 /\ s.pits[13] = c[13] + Row1(c)
            ELSE /\ ~s.game_over
                 /\ s.pits = c

\* C3 witness: the mover's row emptied while the other row still held stones
C3_Witness ==
    /\ Returned /\ s.game_over
    /\ Mover = 0 /\ Row0(last.capt) = 0 /\ Row1(last.capt) > 1
    /\ s.pits[13] = last.capt[13] + Row1(last.capt)

\* the capture condition on the board right after sowing
CaptureCase ==
    /\ last.idx \in OwnRow(Mover)
    /\ last.sown[last.idx] = 1
    /\ last.sown[12 - last.idx] > 0

\* C4: in the capture case the mover's store gains c + 1, the landing pit and
\* the opposite pit become zero, nothing else changes and the flag is set; in
\* every other case the capture step changes no pit and the flag is false
C4_CaptureEffect ==
    Returned =>
        LET w == last.sown
            i == last.idx
        IN  IF CaptureCase
            THEN /\ last.capt[Store(Mover)] = w[Store(Mover)] + w[12 - i] + 1
                 /\ last.capt[i] = 0
                 /\ last.capt[12 - i] = 0
                 /\ \A j \in Slots \ {i, 12 - i, Store(Mover)} : last.capt[j] = w[j]
                 /\ s.last_move_was_capture
            ELSE /\ last.capt = w
                 /\ ~s.last_move_was_capture

\* C4 witness: a capture of at least two opposite stones
C4_Witness ==
    /\ Returned /\ CaptureCase /\ last.sown[12 - last.idx] >= 2
    /\ s.last_move_was_capture

\* C5 as claimed: a landing pit that held a stone before the move never captures
C5_Original ==
    (Returned /\ last.before.pits[last.idx] >= 1) => ~s.last_move_was_capture

\* C5 amended: unless the chosen pit held exactly 13 stones (the last stone
\* then laps into the emptied pit itself), a landing pit that held a stone
\* before the move never captures, and a landing pit holding exactly 1 stone
\* after sowing was empty before the move
C5_NoCaptureOnOccupied ==
    (Returned /\ last.before.pits[last.move_idx] # 13) =>
        /\ last.before.pits[last.idx] >= 1 => ~s.last_move_was_capture
        /\ last.sown[last.idx] = 1 => last.before.pits[last.idx] = 0

\* C5 witness: the last stone lands on an occupied own pit opposite a
\* non-empty pit, and nothing is captured
C5_Witness ==
    /\ Returned
    /\ last.before.pits[last.move_idx] # 13
    /\ last.idx \in OwnRow(Mover)
    /\ last.before.pits[last.idx] >= 1
    /\ last.sown[12 - last.idx] > 0
    /\ ~s.last_move_was_capture

\* an index apply_move must refuse: not a pit of the mover's row, an empty
\* pit, or any index once the game is over
Misuse ==
    \/ last.move_idx \notin OwnRow(Mover)
    \/ last.before.pits[last.move_idx] = 0
    \/ last.before.game_over

\* C6: apply_move called with an index that is not a legal move raises,
\* returns no state and leaves the state it was given as it was
C6_IllegalMove ==
    last.called =>
        /\ Misuse => (last.raised /\ s = last.before)
        /\ last.raised => Misuse

\* C6 witness: a non-empty pit of the opponent's row was refused
C6_Witness ==
    /\ last.called /\ last.raised
    /\ last.move_idx \in OwnRow(1 - Mover)
    /\ last.before.pits[last.move_idx] > 0
    /\ s = last.before

\* C7: no run of play_game with random, minimax or alpha-beta policies
\* raises, neither in the driver's apply_move nor inside a search
C7_LegalityClosure ==
    /\ pc # "raised"
    /\ ~last.raised

\* C7 witness: both sides searched and the driver applied their moves
C7_Witness ==
    /\ pc = "loop" /\ moves >= 2 /\ Returned
    /\ p0_policy.kind = "minimax" /\ p1_policy.kind = "alphabeta"
    /\ p0_policy.depth >= 2 /\ p1_policy.depth >= 2

\* C8: when the move does not end the game, the side to move stays the mover
\* exactly when the rule is on and the last stone fell in the mover's store,
\* and is the other player otherwise; from standard_start(4) move 2 ends in
\* store 6 without capture
C8_TurnAdvance ==
    Returned =>
        /\ ~s.game_over =>
              IF continuation_rule /\ last.idx = Store(Mover)
              THEN s.player_to_move = Mover
              ELSE s.player_to_move = 1 - Mover
        /\ (last.before = standard_start(DefaultStones) /\ last.move_idx = 2) =>
              /\ last.idx = 6
              /\ ~s.last_move_was_capture
              /\ ~s.game_over
              /\ s.player_to_move = IF continuation_rule THEN 0 ELSE 1

\* C8 witness: the extra turn of the scenario
C8_Witness ==
    /\ Returned
    /\ last.before = standard_start(DefaultStones) /\ last.move_idx = 2
    /\ continuation_rule /\ s.player_to_move = 0

\* C9: a finished game has empty rows and no legal move for either player;
\* game_over never goes back to false, and it becomes true only in a move
\* that leaves some row empty
C9_Terminal ==
    /\ [](s.game_over =>
            /\ \A i \in RowSlots : s.pits[i] = 0
            /\ Len(legal_moves(s, 0)) = 0
            /\ Len(legal_moves(s, 1)) = 0)
    /\ [][s.game_over => s'.game_over]_vars
    /\ [][(~s.game_over /\ s'.game_over) =>
            /\ last'.called /\ ~last'.raised /\ last'.before = s
            /\ (Row0(last'.capt) = 0 \/ Row1(last'.capt) = 0)]_vars

\* C9 witness: play_game returned a finished game
C9_Witness ==
    /\ pc = "done" /\ s.game_over
    /\ s.pits[6] + s.pits[13] = 12 * stones_per_pit

\* C10: play_game returns; then moves <= max_moves, moves counts the
\* apply_move applications, and the game is over or the ceiling was reached
C10_Termination ==
    /\ <>(pc = "done")
    /\ [](pc = "done" =>
            /\ moves <= max_moves
            /\ moves = applied
            /\ (s.game_over \/ moves = max_moves))

\* C10 witness: returned because the game ended
C10_Witness ==
    pc = "done" /\ s.game_over /\ moves > 0 /\ moves = applied

\* the greatest and the least element of a non-empty set of integers
SetMax(S) == CHOOSE x \in S : \A y \in S : y <= x
SetMin(S) == CHOOSE x \in S : \A y \in S : x <= y

\* the depth-limited minimax value of a position for max_player: the store
\* difference at a finished game or at depth 0, else the greatest (maximizing
\* level) or least (minimizing level) value of the positions one move away;
\* a side without a move hands the turn over at the same depth
RECURSIVE MinimaxValue(_, _, _, _)
MinimaxValue(state, depth, max_player, maximizing) ==
    IF state.game_over \/ depth = 0
    THEN state.pits[Store(max_player)] - state.pits[Store(1 - max_player)]
    ELSE LET open == {i \in OwnRow(state.player_to_move) : state.pits[i] > 0}
         IN  IF open = {}
             THEN MinimaxValue([state EXCEPT !.player_to_move = 1 - @],
                               depth, max_player, ~maximizing)
             ELSE LET vals == {MinimaxValue(apply_move(state, i, FALSE).ret,
                                            depth - 1, max_player, ~maximizing) :
                                  i \in open}
                  IN  IF maximizing THEN SetMax(vals) ELSE SetMin(vals)

\* the policy that chose the move of the last apply_move call of play_game
LastPolicy == IF Mover = 0 THEN p0_policy ELSE p1_policy

\* the depth-limited minimax values of the children of the position the last
\* move was chosen in, in the order of its legal-move list
LastValues ==
    LET legal == legal_moves_default(last.before)
    IN  [k \in 1 .. Len(legal) |->
           MinimaxValue(apply_move(last.before, legal[k], FALSE).ret,
                        LastPolicy.depth - 1, Mover, FALSE)]

\* C11: the move minimax_policy(d), d >= 1, returned to play_game is an index
\* of the legal-move list it was given: the first one whose child has the
\* greatest depth-limited minimax value, leaves valued by the store difference
\* seen from the mover
C11_MinimaxChoice ==
    (/\ pc # "direct" /\ Returned
     /\ LastPolicy.kind = "minimax" /\ LastPolicy.depth >= 1) =>
        LET legal == legal_moves_default(last.before)
            best == SetMax({LastValues[k] : k \in 1 .. Len(legal)})
        IN  \E k \in 1 .. Len(legal) :
               /\ legal[k] = last.move_idx
               /\ LastValues[k] = best
               /\ \A j \in 1 .. (k - 1) : LastValues[j] < best

\* C11 witness: several moves shared the greatest value, the first legal move
\* was not one of them, and the first of the best was played; depth 2 or more
C11_Witness ==
    /\ pc # "direct" /\ Returned
    /\ LastPolicy.kind = "minimax" /\ LastPolicy.depth >= 2
    /\ LET legal == legal_moves_default(last.before)
           best == SetMax({LastValues[k] : k \in 1 .. Len(legal)})
       IN  /\ LastValues[1] < best
           /\ Cardinality({k \in 1 .. Len(legal) : LastValues[k] = best}) >= 2
           /\ \E k \in 2 .. Len(legal) :
                 /\ legal[k] = last.move_idx
                 /\ LastValues[k] = best
                 /\ \A j \in 1 .. (k - 1) : LastValues[j] < best

\* the number of stones placed before a stone of the last move first reaches
\* slot j, that stone included: the slots follow the chosen pit in increasing
\* index mod 14, the store of the other player left out; the chosen pit
\* itself comes 13th
SowOrder(j) ==
    LET m == last.move_idx
        skip == Store(1 - Mover)
        d == (j - m + NumSlots) % NumSlots
        ds == (skip - m + NumSlots) % NumSlots
    IN  IF d = 0 THEN NumSlots - 1
        ELSE IF ds < d THEN d - 1
        ELSE d

\* the number of the k sown stones that slot j receives
SowCount(j, k) ==
    IF k >= SowOrder(j)
    THEN ((k - SowOrder(j)) \div (NumSlots - 1)) + 1
    ELSE 0

\* C14: sowing k stones leaves the store of the other player as it was, gives
\* every other slot one stone each time the round of the 13 remaining slots
\* reaches it, k placements in all, and ends on the slot of the k-th
\* placement; the other player's store after the move differs from before
\* only by that player's own harvested row
C14_SowSkipsStore ==
    Returned =>
        LET k == last.before.pits[last.move_idx]
            base == [last.before.pits EXCEPT ![last.move_idx] = 0]
            skip == Store(1 - Mover)
        IN  /\ last.sown[skip] = last.before.pits[skip]
            /\ \A j \in Slots \ {skip} : last.sown[j] = base[j] + SowCount(j, k)
            /\ Total(last.sown) = Total(base) + k
            /\ last.idx # skip
            /\ SowOrder(last.idx) = ((k - 1) % (NumSlots - 1)) + 1
            /\ s.pits[skip] = last.before.pits[skip]
                  + (IF s.game_over
                     THEN (IF Mover = 0 THEN Row1(last.capt) ELSE Row0(last.capt))
                     ELSE 0)
            /\ ~s.game_over => s.pits[skip] = last.before.pits[skip]

\* C14 witness: a full lap of 13 stones or more by player 1 that does not end
\* the game; the round passed store 6 and left it as it was
C14_Witness ==
    /\ Returned /\ Mover = 1 /\ ~s.game_over
    /\ last.before.pits[last.move_idx] >= 13
    /\ s.pits[6] = last.before.pits[6]
    /\ s.pits[13] > last.before.pits[13]

\* C17: a move that ends the game returns the side to move it was given, the
\* player who made it, with the rule on or off and wherever the last stone
\* fell
C17_TurnFrozen ==
    (Returned /\ s.game_over) =>
        s.player_to_move = last.before.player_to_move

\* C17 witness: with the rule off, a final move by player 1 whose last stone
\* fell in a pit of the other row
C17_Witness ==
    /\ Returned /\ s.game_over /\ ~last.before.game_over
    /\ ~continuation_rule
    /\ Mover = 1 /\ last.idx \in OwnRow(0)
    /\ s.player_to_move = 1

\* the stones in the row of player pl on board p
RowOf(pl, p) == IF pl = 0 THEN Row0(p) ELSE Row1(p)

\* the other player's row is empty before the harvest while the mover's row
\* still holds stones
OpponentRowEmptied ==
    /\ RowOf(1 - Mover, last.capt) = 0
    /\ RowOf(Mover, last.capt) > 0

\* C15 as claimed: the row that is empty when the harvest is triggered is the
\* mover's own; no move leaves the other row empty and the mover's row not
C15_Original ==
    Returned =>
        /\ s.game_over => RowOf(Mover, last.capt) = 0
        /\ ~OpponentRowEmptied

\* C15 amended: a move from a position of a game from standard_start(n)
\* leaves the other player's row empty, its own row not, only by capturing
\* the last stones of that row; without a capture the row that is empty at
\* the harvest is the mover's own
C15_EmptyRow ==
    Returned =>
        /\ OpponentRowEmptied =>
              /\ s.game_over
              /\ s.last_move_was_capture
              /\ CaptureCase
              /\ RowOf(1 - Mover, last.sown) = last.sown[12 - last.idx]
        /\ (s.game_over /\ ~s.last_move_was_capture) =>
              RowOf(Mover, last.capt) = 0

\* C15 witness: a capture took the last stones of the other row and ended the
\* game while the mover's row still held stones
C15_Witness ==
    /\ Returned /\ s.game_over /\ s.last_move_was_capture
    /\ OpponentRowEmptied
    /\ RowOf(1 - Mover, last.sown) = last.sown[12 - last.idx]

\* C18: in a game from standard_start(n) no step takes a stone out of store 6
\* or store 13, and no pit ever holds a negative number
C18_StoresGrow ==
    /\ [][/\ s'.pits[6] >= s.pits[6]
          /\ s'.pits[13] >= s.pits[13]]_vars
    /\ [](\A i \in Slots : s.pits[i] >= 0)

\* C18 witness: a final move that captured: the mover's store grew by the
\* capture, the other store by the harvest of its row
C18_Witness ==
    /\ Returned /\ s.game_over /\ s.last_move_was_capture
    /\ last.before.pits[6] > 0 /\ last.before.pits[13] > 0
    /\ s.pits[6] > last.before.pits[6]
    /\ s.pits[13] > last.before.pits[13]

\* a measure of the board: the stones in the stores weigh more than any
\* arrangement of the rows, and a stone in a row weighs more the nearer it is
\* to the store of that row
Rank(p) ==
    (6 * Total(p) + 1) * (p[6] + p[13])
    + 1 * (p[0] + p[7]) + 2 * (p[1] + p[8]) + 3 * (p[2] + p[9])
    + 4 * (p[3] + p[10]) + 5 * (p[4] + p[11]) + 6 * (p[5] + p[12])

\* C19: under any choice of legal moves, rule on or off, every step of the
\* game raises the measure of the board, so that no board comes twice, and
\* play_game returns with game_over = true before the ceiling is reached
C19_EndsOnItsOwn ==
    /\ [][s' # s => (s'.pits # s.pits /\ Rank(s'.pits) > Rank(s.pits))]_vars
    /\ [](pc = "done" => (s.game_over /\ moves < max_moves))
    /\ <>(pc = "done")

\* C19 witness: a game that went on for 15 moves after the opening and ended
C19_Witness ==
    /\ pc = "done" /\ s.game_over
    /\ moves >= applied /\ applied >= 22 /\ moves < max_moves

\* the search calls made to choose the move of the last apply_move call of
\* play_game
LastNodes ==
    policy_nodes(LastPolicy, last.before, legal_moves_default(last.before), Mover)

\* C13 as claimed: a policy built with depth >= 0 calls no search function
\* more than max(depth, 1) applied moves below the state it was given, and a
\* call that stops returns the store difference seen from the mover
C13_Original ==
    (pc # "direct" /\ Returned /\ LastPolicy.kind # "random") =>
        \A n \in LastNodes :
           /\ LastPolicy.depth - n.depth <= Max2(LastPolicy.depth, 1)
           /\ terminal_or_depth(n.state, n.depth) =>
                 /\ n.state.game_over \/ LastPolicy.depth - n.depth = LastPolicy.depth
                 /\ (IF n.level = "min"
                     THEN min_value(n.state, n.depth, Mover)
                     ELSE max_value(n.state, n.depth, Mover))
                       = n.state.pits[Store(Mover)] - n.state.pits[Store(1 - Mover)]

\* C13 for the policies built with depth >= 1, where it holds
C13_FromDepthOne ==
    (pc # "direct" /\ Returned /\ LastPolicy.kind # "random" /\ LastPolicy.depth >= 1) =>
        \A n \in LastNodes :
           /\ LastPolicy.depth - n.depth <= Max2(LastPolicy.depth, 1)
           /\ terminal_or_depth(n.state, n.depth) =>
                 /\ n.state.game_over \/ LastPolicy.depth - n.depth = LastPolicy.depth
                 /\ (IF n.level = "min"
                     THEN min_value(n.state, n.depth, Mover)
                     ELSE max_value(n.state, n.depth, Mover))
                       = n.state.pits[Store(Mover)] - n.state.pits[Store(1 - Mover)]

\* a search call that goes on (no game over, depth not 0) at a state whose
\* side to move has no legal move: the call passes the turn
PassNode(n) ==
    /\ ~terminal_or_depth(n.state, n.depth)
    /\ Len(legal_moves_default(n.state)) = 0

\* C16: in every state of a game that is not over both players have a legal
\* move; every step of play_game that changes the state is an apply_move that
\* counts as a move, never the pass of the driver; and no search call made to
\* choose a move passes the turn
C16_NoPass ==
    /\ [](~s.game_over =>
            /\ Len(legal_moves(s, 0)) > 0
            /\ Len(legal_moves(s, 1)) > 0)
    /\ [][s' # s =>
            /\ moves' = moves + 1
            /\ last'.called /\ ~last'.raised /\ last'.before = s]_vars
    /\ []((pc # "direct" /\ Returned) => \A n \in LastNodes : ~PassNode(n))

\* C16 witness: a move was chosen by a search that went on at a state whose
\* side to move had one stone left in its row, and the game is not over
C16_Witness ==
    /\ pc = "loop" /\ Returned /\ ~s.game_over
    /\ LastPolicy.kind # "random"
    /\ \E n \in LastNodes :
          /\ ~terminal_or_depth(n.state, n.depth)
          /\ RowOf(n.state.player_to_move, n.state.pits) = 1
          /\ Len(legal_moves_default(n.state)) = 1

\* C20: among the search calls made to choose a move for the side to move,
\* every maximizing call on a state that is not game over finds that side to
\* move, and every minimizing one the other side
C20_LevelsMatch ==
    (pc # "direct" /\ Returned) =>
        \A n \in LastNodes :
           ~n.state.game_over =>
              n.state.player_to_move = (IF n.level = "max" THEN Mover ELSE 1 - Mover)

\* C20 witness: a search of player 1 at full depth went on at a maximizing
\* call and reached, below it, a minimizing call on a state that is not game
\* over
C20_Witness ==
    /\ pc # "direct" /\ Returned /\ Mover = 1
    /\ LastPolicy.kind = "alphabeta" /\ LastPolicy.depth = MaxDepth
    /\ \E n \in LastNodes :
          /\ n.level = "max" /\ ~terminal_or_depth(n.state, n.depth)
          /\ n.state.player_to_move = 1
    /\ \E n \in LastNodes :
          /\ n.level = "min" /\ ~n.state.game_over
          /\ n.depth <= LastPolicy.depth - 3
          /\ n.state.player_to_move = 0

\* ----------------------------------------------------------------- C12
\* the field values of the state the caller passed, before and after the call
GivenBefore == Deref(mem.pre, mem.given)
GivenAfter == Deref(mem.post, mem.given)

\* C12: a call of apply_move, of a search policy or of a search function
\* leaves every object and every list that existed before the call as it
\* was, the state it was given among them, whether it returns or raises; the
\* state apply_move returns is a new object whose list is a new list, not the
\* list of the given state; and the search, which uses each parent state for
\* all its children, returns what it returns on immutable values
C12_CopyOnWrite ==
    mem.op # "none" =>
        /\ GivenAfter = GivenBefore
        /\ \A i \in 1 .. Len(mem.pre.objs) : mem.post.objs[i] = mem.pre.objs[i]
        /\ \A j \in 1 .. Len(mem.pre.lists) : mem.post.lists[j] = mem.pre.lists[j]
        /\ (mem.op = "apply_move" /\ ~mem.raised) =>
              /\ mem.got > Len(mem.pre.objs)
              /\ mem.post.objs[mem.got].pits > Len(mem.pre.lists)
              /\ mem.post.objs[mem.got].pits # mem.post.objs[mem.given].pits
        /\ (mem.op = "policy" /\ ~mem.raised) =>
              mem.out = IF mem.fn = "minimax"
                        THEN minimax_policy(mem.depth, GivenBefore,
                                            legal_moves(GivenBefore, mem.arg), mem.arg)
                        ELSE alphabeta_policy(mem.depth, GivenBefore,
                                              legal_moves(GivenBefore, mem.arg), mem.arg)
        /\ (mem.op = "search" /\ ~mem.raised) =>
              mem.out = search_value(mem.fn, GivenBefore, mem.depth, mem.arg)

\* apply_move returned a state that differs from the one it was given
C12_Witness ==
    /\ mem.op = "apply_move"
    /\ ~mem.raised
    /\ Deref(mem.post, mem.got).pits # GivenBefore.pits
    /\ Deref(mem.post, mem.got).player_to_move # GivenBefore.player_to_move

====
